---- MODULE Spec2Model ----
(***************************************************************************)
(* git-agent: the workflow state machine (AgentOrchestrator), the task     *)
(* queue and episodic memory (MemoryService), the development step         *)
(* (developNextTask) and the cron scheduler (CronScheduler).               *)
(*                                                                         *)
(* JavaScript runs one callback at a time.  A handler runs without         *)
(* interruption until it awaits real I/O (the code producer, the           *)
(* repository host, the notifier, a timer); awaits of MemoryService and    *)
(* BufferMemory resolve in microtasks and give no other handler a turn.    *)
(* Every action below is one such uninterrupted block.                     *)
(***************************************************************************)
EXTENDS Integers, Sequences, FiniteSets, TLC

\* ------------------------------------------------------------ bounds
MaxTasks == 2
MaxEvents == 4
MaxFailures == 1

\* ------------------------------------------------------------ data
Null == "null"

\* A task of a plan: title and filePath (description, priority are not read
\* by the state machine).
Task(t, f) == [title |-> t, filePath |-> f]

\* The plans the code producer may return: n tasks with distinct file paths;
\* with dup the second task repeats the title of the first (nothing in
\* planProject checks that titles are unique).
PlanOf(n, dup) == [k \in 1..n |-> Task(IF dup /\ k = 2 THEN 1 ELSE k, k)]

Plans == {PlanOf(n, dup) : n \in 0..MaxTasks, dup \in BOOLEAN}

\* One saveContext call: the pair of messages (input, output) it appends.
\* kind names the call site, tasks/a/b carry the payload the scans read.
Entry(k, ts, a, b) == [kind |-> k, tasks |-> ts, a |-> a, b |-> b]

\* A message that JSON.parse rejects (no call of saveContext writes one: each
\* message is the JSON.stringify of an object).  a is the text that the
\* pattern /projectSpec":"(.*?)"/ captures in it, Null when the pattern does
\* not match; b tells what /remainingTasks.*?\[(.*?)\]/ captures: "none" when
\* the pattern does not match, "array" when the capture parses as the array
\* ts, "broken" when JSON.parse rejects the capture too.
Malformed(ts, a, b) == Entry("malformed", ts, a, b)

\* Substrings of the JSON text of the input message of an entry.
InputWords(e) ==
    CASE e.kind = "initialization" -> {"step", "initialization"}
      [] e.kind = "completion"     -> {"project", "status", "\"project\":\"status\""}
      [] e.kind = "task"           -> {"task"}
      [] e.kind = "plan"           -> {"projectPlan", "save"}
      [] e.kind = "repo"           -> {"action", "save_repository", "repo"}
      [] e.kind = "update"         -> {"remainingTasks", "update"}
      [] e.kind = "clear_repo"     -> {"action", "clear_repository", "repo"}
      [] e.kind = "malformed"      -> {}
      [] OTHER                     -> {}

\* Substrings of the JSON text of the output message of an entry.
OutputWords(e) ==
    CASE e.kind = "initialization" -> {"status", e.a, "timestamp"}
      [] e.kind = "completion"     -> {"status", "complete", "\"status\":\"complete\"", "completedAt"}
      [] e.kind = "task"           -> {"status", e.b, "details", "timestamp"}
      [] e.kind = "plan"           -> {"remainingTasks", "totalTasks", "projectSpec"}
      [] e.kind = "repo"           -> {"repo", "name", "url", "timestamp"}
      [] e.kind = "update"         -> {"remainingTasks"}
      [] e.kind = "clear_repo"     -> {"repository", "repo", "timestamp"}
      [] e.kind = "malformed"      ->
            (IF e.a # Null THEN {"projectSpec"} ELSE {})
                \cup (IF e.b # "none" THEN {"remainingTasks"} ELSE {})
      [] OTHER                     -> {}

\* ------------------------------------------------------------ MemoryService
\* m is the MemoryService instance: [st |-> projectState, log |-> chat history]

EmptyProjectState ==
    [isInitialized |-> FALSE, isCompleted |-> FALSE,
     remainingTasks |-> <<>>, projectSpec |-> Null]

NewMemoryService == [st |-> EmptyProjectState, log |-> <<>>]

saveContext(m, e) == [m EXCEPT !.log = Append(@, e)]

\* markProjectCompleted that flips the flag instead of setting it
markProjectCompletedFlips(m) == [m EXCEPT !.st.isCompleted = ~@]

markProjectCompleted(m) == [m EXCEPT !.st.isCompleted = TRUE]

saveProjectCompletion(m) ==
    saveContext([m EXCEPT !.st.isCompleted = TRUE],
                Entry("completion", <<>>, "status", "complete"))

saveInitializationStatus(m, status) ==
    saveContext([m EXCEPT !.st.isInitialized = (status = "done")],
                Entry("initialization", <<>>, status, ""))

\* taskTitle is "TASK" for a task of the plan (done holds it), "ERROR" or
\* "CRON_ERROR"
saveTaskProgress(m, taskTitle, status, done) ==
    saveContext(m, Entry("task", done, taskTitle, status))

\* saveProjectPlan with a queue that leaves out the first task of the plan
saveProjectPlanSkipsFirst(m, tasks, spec) ==
    saveContext([m EXCEPT !.st.remainingTasks =
                              IF tasks = <<>> THEN <<>> ELSE Tail(tasks),
                          !.st.projectSpec = spec],
                Entry("plan", tasks, spec, ""))

saveProjectPlan(m, tasks, spec) ==
    saveContext([m EXCEPT !.st.remainingTasks = tasks, !.st.projectSpec = spec],
                Entry("plan", tasks, spec, ""))

\* saveRepositoryInfo with an entry that holds no name and no url
saveRepositoryInfoUnnamed(m, repo) ==
    saveContext(m, Entry("repo", <<>>, Null, ""))

saveRepositoryInfo(m, repo) == saveContext(m, Entry("repo", <<>>, repo, ""))

clearRepositoryInfo(m) == saveContext(m, Entry("clear_repo", <<>>, "", ""))

updateRemainingTasks(m, updatedTasks) ==
    LET m1 == saveContext([m EXCEPT !.st.remainingTasks = updatedTasks],
                          Entry("update", updatedTasks, "", ""))
    IN  IF Len(updatedTasks) = 0 THEN markProjectCompleted(m1) ELSE m1

\* FirstIndex with a scan that walks from the last message to the first
FirstIndexFromEnd(S) == IF S = {} THEN 0 ELSE CHOOSE i \in S : \A j \in S : j <= i

\* The scans walk past_steps from the first message appended to the last and
\* return at the first match: S is the set of the places that match.
FirstIndex(S) == IF S = {} THEN 0 ELSE CHOOSE i \in S : \A j \in S : i <= j

\* content.includes("remainingTasks"), parsed.remainingTasks a non-empty array
HasSavedQueue(e) ==
    /\ "remainingTasks" \in OutputWords(e)
    /\ e.kind \in {"plan", "update"}
    /\ Len(e.tasks) > 0

\* content.includes("repo") && includes("name"), parsed.repo.name && .url
HasRepository(e) ==
    /\ {"repo", "name"} \subseteq OutputWords(e)
    /\ e.kind = "repo"
    /\ e.a # Null

\* content.includes("projectSpec") and either parsed.projectSpec is truthy
\* or, when JSON.parse throws, the pattern of the catch block matches
HasProjectSpec(e) ==
    /\ "projectSpec" \in OutputWords(e)
    /\ e.kind \in {"plan", "malformed"}
    /\ e.a # Null

HasInitialization(e) ==
    \/ {"initialization", "done"} \subseteq InputWords(e)
    \/ {"initialization", "done"} \subseteq OutputWords(e)

HasCompletion(e) ==
    \/ "\"status\":\"complete\"" \in (InputWords(e) \cup OutputWords(e))
    \/ "\"project\":\"status\"" \in (InputWords(e) \cup OutputWords(e))

getRepositoryInfo(m) ==
    LET i == FirstIndex({k \in 1..Len(m.log) : HasRepository(m.log[k])})
    IN  IF i = 0 THEN Null ELSE m.log[i].a

isProjectInitialized(m) ==
    \/ m.st.isInitialized
    \/ \E i \in 1..Len(m.log) : HasInitialization(m.log[i])

isProjectCompleted(m) ==
    \/ m.st.isCompleted
    \/ \E i \in 1..Len(m.log) : HasCompletion(m.log[i])

\* content.includes("remainingTasks") and either parsed.remainingTasks is an
\* array (an empty one too) or JSON.parse threw and the pattern of the catch
\* block matches
DecidesQueue(e) ==
    /\ "remainingTasks" \in OutputWords(e)
    /\ \/ e.kind \in {"plan", "update"}
       \/ e.kind = "malformed" /\ e.b # "none"

\* The log scan of getRemainingTasks: the first entry that decides gives the
\* result; a capture that JSON.parse rejects throws out of the loop into the
\* outer catch, and [] is returned.
scanRemainingTasks(m) ==
    LET i == FirstIndex({k \in 1..Len(m.log) : DecidesQueue(m.log[k])})
    IN  IF i = 0 THEN <<>>
        ELSE IF m.log[i].kind = "malformed" /\ m.log[i].b = "broken" THEN <<>>
        ELSE m.log[i].tasks

\* remainingTasks is always an array, and [].length >= 0: the local state is
\* what is returned
getRemainingTasks(m) ==
    IF Len(m.st.remainingTasks) >= 0 THEN m.st.remainingTasks
    ELSE scanRemainingTasks(m)

getProjectSpec(m) ==
    IF m.st.projectSpec # Null THEN m.st.projectSpec
    ELSE LET i == FirstIndex({k \in 1..Len(m.log) : HasProjectSpec(m.log[k])})
         IN  IF i = 0 THEN Null ELSE m.log[i].a

\* resetProjectCompletion that leaves the flag as it is
resetProjectCompletionKeeps(m) == m

resetProjectCompletion(m) == [m EXCEPT !.st.isCompleted = FALSE]

\* forceResetProject that restores the queue and leaves the completed flag
forceResetProjectKeepsFlag(m) ==
    LET i == FirstIndex({k \in 1..Len(m.log) : HasSavedQueue(m.log[k])})
    IN  IF i = 0 THEN [m |-> m, ok |-> FALSE]
        ELSE [m |-> [m EXCEPT !.st.remainingTasks = m.log[i].tasks], ok |-> TRUE]

\* [m |-> the instance afterwards, ok |-> the value returned]
forceResetProject(m) ==
    LET i == FirstIndex({k \in 1..Len(m.log) : HasSavedQueue(m.log[k])})
    IN  IF i = 0 THEN [m |-> m, ok |-> FALSE]
        ELSE [m |-> [m EXCEPT !.st.remainingTasks = m.log[i].tasks,
                              !.st.isCompleted = FALSE],
              ok |-> TRUE]

continueDevelopment(m) ==
    IF Len(m.st.remainingTasks) > 0
    THEN [m |-> [m EXCEPT !.st.isCompleted = FALSE], ok |-> TRUE]
    ELSE LET i == FirstIndex({k \in 1..Len(m.log) : HasSavedQueue(m.log[k])})
         IN  IF i = 0 THEN [m |-> m, ok |-> FALSE]
             ELSE [m |-> [m EXCEPT !.st.remainingTasks = m.log[i].tasks,
                                   !.st.isCompleted = FALSE],
                   ok |-> TRUE]

\* clearMemory that resets the projectState and keeps the BufferMemory
clearMemoryKeepsLog(m) == clearRepositoryInfo([m EXCEPT !.st = EmptyProjectState])

\* a new BufferMemory, the initial projectState, then the tombstone entry
clearMemory(m) == clearRepositoryInfo(NewMemoryService)

\* ------------------------------------------------------------ CronScheduler
\* s is the scheduler: [isRunning, jobs]
\* startScheduler without the check of isRunning: a job is scheduled on
\* every call
startSchedulerAlways(s) ==
    [isRunning |-> TRUE,
     jobs |-> s.jobs \cup {IF s.jobs = {} THEN "dailyDevelopment"
                           ELSE "dailyDevelopment (second)"}]

\* start() that returns without scheduling the job
startSchedulerNever(s) == s

startScheduler(s) ==
    IF s.isRunning THEN s
    ELSE [isRunning |-> TRUE, jobs |-> s.jobs \cup {"dailyDevelopment"}]

\* stopScheduler that clears isRunning and leaves the job scheduled
stopSchedulerKeepsJob(s) == [isRunning |-> FALSE, jobs |-> s.jobs]

stopScheduler(s) == [isRunning |-> FALSE, jobs |-> {}]

\* ------------------------------------------------------------ workflow
\* What a handler has when it reaches its first real await, or returns
\* before one: the memory service, the status returned ("develop": the
\* producer has been called and the handler is suspended), the queue read.
Outcome(m, status, tasks) == [m |-> m, status |-> status, snap |-> tasks]

\* developNextTask up to model.invoke (lines 65-159); planTasks is
\* state.plan.tasks
developNextTaskEntry(m, repo, planTasks) ==
    IF repo = Null \/ repo = "mock-repo"
    THEN Outcome(saveTaskProgress(m, "ERROR", "failed", <<>>), "error", <<>>)
    ELSE LET remainingTasks == getRemainingTasks(m)
         IN  IF Len(remainingTasks) > 0
             THEN Outcome(m, "develop", remainingTasks)
             ELSE IF Len(planTasks) > 0
             THEN Outcome(m, "develop", planTasks)
             ELSE Outcome(saveProjectCompletion(m),
                          "Project completed - no more tasks", <<>>)

\* runDailyCycle with a guard that records the refusal in the log
RECURSIVE runDailyCycleRecords(_)
runDailyCycleRecords(m) ==
    IF ~isProjectInitialized(m)
    THEN Outcome(saveInitializationStatus(m, "pending"),
                 "Project not initialized", <<>>)
    ELSE IF isProjectCompleted(m)
    THEN Outcome(saveProjectCompletion(m), "Project completed", <<>>)
    ELSE IF getProjectSpec(m) = Null
    THEN Outcome(m, "No project spec available", <<>>)
    ELSE IF Len(getRemainingTasks(m)) = 0
    THEN LET i == FirstIndex({k \in 1..Len(m.log) : HasSavedQueue(m.log[k])})
         IN  IF i # 0
             THEN runDailyCycleRecords(updateRemainingTasks(m, m.log[i].tasks))
             ELSE Outcome(markProjectCompleted(m), "Project completed", <<>>)
    ELSE LET repo == getRepositoryInfo(m)
             m1 == IF repo = Null THEN saveRepositoryInfo(m, "generated") ELSE m
             repo1 == IF repo = Null THEN "generated" ELSE repo
         IN  developNextTaskEntry(m1, repo1, getRemainingTasks(m))

\* runDailyCycle without the recovery: an empty queue ends the project
runDailyCycleNoRecovery(m) ==
    IF ~isProjectInitialized(m)
    THEN Outcome(m, "Project not initialized", <<>>)
    ELSE IF isProjectCompleted(m)
    THEN Outcome(m, "Project completed", <<>>)
    ELSE IF getProjectSpec(m) = Null
    THEN Outcome(m, "No project spec available", <<>>)
    ELSE IF Len(getRemainingTasks(m)) = 0
    THEN Outcome(markProjectCompleted(m), "Project completed", <<>>)
    ELSE LET repo == getRepositoryInfo(m)
             m1 == IF repo = Null THEN saveRepositoryInfo(m, "generated") ELSE m
             repo1 == IF repo = Null THEN "generated" ELSE repo
         IN  developNextTaskEntry(m1, repo1, getRemainingTasks(m))

\* runDailyCycle up to the first real await (workflow.js lines 113-219)
RECURSIVE runDailyCycle(_)
runDailyCycle(m) ==
    IF ~isProjectInitialized(m)
    THEN Outcome(m, "Project not initialized", <<>>)
    ELSE IF isProjectCompleted(m)
    THEN Outcome(m, "Project completed", <<>>)
    ELSE IF getProjectSpec(m) = Null
    THEN Outcome(m, "No project spec available", <<>>)
    ELSE IF Len(getRemainingTasks(m)) = 0
    THEN LET i == FirstIndex({k \in 1..Len(m.log) : HasSavedQueue(m.log[k])})
         IN  IF i # 0
             THEN runDailyCycle(updateRemainingTasks(m, m.log[i].tasks))
             ELSE Outcome(markProjectCompleted(m), "Project completed", <<>>)
    ELSE LET repo == getRepositoryInfo(m)
             m1 == IF repo = Null THEN saveRepositoryInfo(m, "generated") ELSE m
             repo1 == IF repo = Null THEN "generated" ELSE repo
         IN  developNextTaskEntry(m1, repo1, getRemainingTasks(m))

\* ------------------------------------------------------------ state
Ticks == {"tick1", "tick2"}
Procs == Ticks \cup {"manual", "run", "restart"}
Cyclers == Ticks \cup {"manual", "run"}

VARIABLES
    memoryService,  \* the MemoryService singleton: projectState and chat history
    isRunning,      \* CronScheduler.isRunning
    jobs,           \* CronScheduler.jobs (names of the scheduled jobs)
    commits,        \* the repository host: the commits made, in order
    pc,             \* where each handler is suspended ("idle": not in flight)
    snap,           \* developNextTask: remainingTasks read at line 99
    sha,            \* developNextTask: revision read by getContent
    pre,            \* the invocation in flight: projectState and number of
                    \* commits when its cycle began, the memory service
                    \* when it was suspended first
    tickJob,        \* the tick callbacks in flight fired by the job now scheduled
    ret,            \* the invocation that ended in the last step, and how
    nEvents,        \* timer firings and requests so far
    nFailures,      \* failures of the collaborators so far
    warned,         \* a notification failed in the last step and the handler
                    \* logged the warning
    serial,         \* the environment lets a handler begin only when none is
                    \* in flight
    projectTitle,   \* projectSpec.title handed to manageRepository
    repoName,       \* the repository name computed from it, Null before
    filePath,       \* currentTask.filePath handed to normalizeFilePath
    fullPath        \* the path normalizeFilePath returned, Null before

vars == <<memoryService, isRunning, jobs, commits, pc, snap, sha, pre,
          tickJob, ret, nEvents, nFailures, warned, serial, projectTitle, repoName, filePath, fullPath>>

Sched == [isRunning |-> isRunning, jobs |-> jobs]

Returned(p, status) == [by |-> p, status |-> status]
NoReturn == Returned("none", "none")

Before(st, n, m) == [st |-> st, commits |-> n, m |-> m]
NoBefore == Before(EmptyProjectState, 0, NewMemoryService)

Quiet == \A p \in Procs : pc[p] = "idle"

\* A timer firing or a request may arrive.
MayBegin == nEvents < MaxEvents /\ (serial => Quiet)

InitState ==
    /\ memoryService = NewMemoryService
    /\ isRunning = FALSE
    /\ jobs = {}
    /\ commits = <<>>
    /\ pc = [p \in Procs |-> "idle"]
    /\ snap = [p \in Procs |-> <<>>]
    /\ sha = [p \in Procs |-> 0]
    /\ pre = [p \in Procs |-> NoBefore]
    /\ tickJob = {}
    /\ ret = NoReturn
    /\ nEvents = 0
    /\ nFailures = 0
    /\ warned = FALSE

\* No repository name is being computed.
NoTitle == projectTitle = <<>> /\ repoName = Null

\* No file path is being normalized.
NoPath == filePath = <<>> /\ fullPath = Null

Init == InitState /\ serial = FALSE /\ NoTitle /\ NoPath

InitSerial == InitState /\ serial = TRUE /\ NoTitle /\ NoPath

\* ------------------------------------------------------------ handlers
\* tickEntry without the check that the project is completed
tickEntryUnchecked(m) ==
    IF Len(getRemainingTasks(m)) = 0
    THEN LET c == continueDevelopment(m)
         IN  IF ~c.ok THEN Outcome(c.m, "stop", <<>>) ELSE runDailyCycle(c.m)
    ELSE runDailyCycle(m)

\* tickEntry with a callback that marks the project completed itself when
\* there is nothing to continue
tickEntryMarks(m) ==
    IF isProjectCompleted(m) THEN Outcome(m, "stop", <<>>)
    ELSE IF Len(getRemainingTasks(m)) = 0
    THEN LET c == continueDevelopment(m)
         IN  IF ~c.ok THEN Outcome(markProjectCompleted(c.m), "stop", <<>>)
             ELSE runDailyCycle(c.m)
    ELSE runDailyCycle(m)

\* tickEntry without the check of the queue before the cycle
tickEntryRuns(m) ==
    IF isProjectCompleted(m) THEN Outcome(m, "stop", <<>>)
    ELSE runDailyCycle(m)

\* The tick callback up to runDailyCycle (cronScheduler.js lines 27-54):
\* "stop" means the callback called this.stop() and returned.
tickEntry(m) ==
    IF isProjectCompleted(m) THEN Outcome(m, "stop", <<>>)
    ELSE IF Len(getRemainingTasks(m)) = 0
    THEN LET c == continueDevelopment(m)
         IN  IF ~c.ok THEN Outcome(c.m, "stop", <<>>) ELSE runDailyCycle(c.m)
    ELSE runDailyCycle(m)

\* triggerManualCycle after the scheduler was started (lines 137-148)
manualEntry(m) ==
    IF isProjectCompleted(m) THEN Outcome(m, "Project completed", <<>>)
    ELSE runDailyCycle(m)

\* Epilogue with a tick that stops the scheduler when its cycle throws
EpilogueStopsOnError(p, m, s, status) ==
    IF p \in Ticks /\ status \in {"error", "stop", "Project completed"}
    THEN [m |-> IF status = "error"
                THEN saveTaskProgress(m, "CRON_ERROR", "failed", <<>>) ELSE m,
          s |-> stopScheduler(s),
          res |-> IF status = "error" THEN "error absorbed" ELSE status]
    ELSE [m |-> m, s |-> s, res |-> status]

\* What the caller of runDailyCycle does with its result or its error:
\* the tick callback stops the scheduler on "Project completed" and absorbs
\* an error into a CRON_ERROR entry (lines 56-77); triggerManualCycle and
\* the controller hand both on.
Epilogue(p, m, s, status) ==
    IF p \in Ticks
    THEN CASE status = "error" ->
                [m |-> saveTaskProgress(m, "CRON_ERROR", "failed", <<>>),
                 s |-> s, res |-> "error absorbed"]
           [] status \in {"stop", "Project completed"} ->
                [m |-> m, s |-> stopScheduler(s), res |-> status]
           [] OTHER -> [m |-> m, s |-> s, res |-> status]
    ELSE [m |-> m, s |-> s, res |-> status]

\* The memory service with which p calls runDailyCycle: a tick that finds
\* the queue empty has called continueDevelopment before (cronScheduler.js
\* lines 39-54).
cycleStart(p, m) ==
    IF p \in Ticks /\ ~isProjectCompleted(m) /\ Len(getRemainingTasks(m)) = 0
    THEN continueDevelopment(m).m
    ELSE m

\* notify with a failed notification that is thrown on to the caller
notifyThrows(status, delivered) == IF delivered THEN status ELSE "error"

\* try { await notificationService.send...(...) } catch (notifyError)
\* { console.warn(...) }: the status with which the handler goes on after a
\* notification that was delivered or failed (developmentAgent.js lines
\* 276-286, 297-305, 328-337; workflow.js lines 89-99).
notify(status, delivered) == status

\* The invocation of p ends with status, after a last notification.
ReturnNotified(p, m, s, status, delivered) ==
    LET e == Epilogue(p, m, s, notify(status, delivered))
    IN  /\ warned' = ~delivered
        /\ memoryService' = e.m
        /\ isRunning' = e.s.isRunning
        /\ jobs' = e.s.jobs
        /\ tickJob' = IF e.s.jobs = {} THEN {} ELSE tickJob \ {p}
        /\ pc' = [pc EXCEPT ![p] = "idle"]
        /\ snap' = [snap EXCEPT ![p] = <<>>]
        /\ sha' = [sha EXCEPT ![p] = 0]
        /\ pre' = [pre EXCEPT ![p] = NoBefore]
        /\ serial' = serial
        /\ UNCHANGED <<projectTitle, repoName, filePath, fullPath>>
        /\ ret' = Returned(p, e.res)

\* The invocation of p ends with status.
Return(p, m, s, status) == ReturnNotified(p, m, s, status, TRUE)

\* p is suspended on the code producer with the queue it read.
Suspend(p, m, s, tasks) ==
    /\ memoryService' = m
    /\ isRunning' = s.isRunning
    /\ jobs' = s.jobs
    /\ pc' = [pc EXCEPT ![p] = "gen"]
    /\ snap' = [snap EXCEPT ![p] = tasks]
    /\ pre' = [pre EXCEPT ![p] =
                  Before(cycleStart(p, memoryService).st, Len(commits), m)]
    /\ ret' = NoReturn
    /\ warned' = FALSE
    /\ UNCHANGED <<sha, serial, projectTitle, repoName, filePath, fullPath>>

\* p begins a Development Cycle whose first block gave out.
Begin(p, out, s) ==
    /\ nEvents' = nEvents + 1
    /\ UNCHANGED <<commits, nFailures>>
    /\ IF out.status = "develop"
       THEN Suspend(p, out.m, s, out.snap)
       ELSE Return(p, out.m, s, out.status)

\* The callbacks in flight are told apart by name only: the free one with
\* the first name is taken.
Earlier(p, q) == p = "tick1" \/ q = "tick2"

\* node-cron fires the callback of the scheduled job (cronScheduler.js
\* lines 27-81).  The job is taken not to fire again while a callback it
\* fired is still running.  A tick that finds the project completed only
\* stops the scheduler: it is let through when the budget of events is used
\* up, so that the bound keeps no running scheduler from its next tick.
TimerFire(p) ==
    /\ p \in Ticks
    /\ pc[p] = "idle"
    /\ \A q \in Ticks : pc[q] = "idle" => Earlier(p, q)
    /\ jobs # {}
    /\ tickJob = {}
    /\ MayBegin \/ (isProjectCompleted(memoryService) /\ (serial => Quiet))
    /\ LET out == tickEntry(memoryService)
       IN  /\ Begin(p, out, Sched)
           /\ IF out.status = "develop"
              THEN tickJob' = tickJob \cup {p}
              ELSE TRUE

\* POST /cron/trigger, GET /run-daily (cronScheduler.js lines 128-153)
ManualTrigger ==
    /\ pc["manual"] = "idle"
    /\ MayBegin
    /\ LET out == manualEntry(memoryService)
       IN  /\ Begin("manual", out, startScheduler(Sched))
           /\ IF out.status = "develop" THEN UNCHANGED tickJob ELSE TRUE

\* ------------------------------------------------------------ the development step
currentTask(p) == snap[p][1]

\* The repository host: the revision of the file at path (0: no such file).
Rev(path) == Cardinality({i \in 1..Len(commits) : commits[i].task.filePath = path})

\* FilterOut with a filter that lets every task through
FilterOutNothing(tasks, title) == tasks

\* remainingTasks.filter(task => task.title !== currentTask.title)
FilterOut(tasks, title) == SelectSeq(tasks, LAMBDA t : t.title # title)

\* p moves on to its next await.
Goto(p, label) ==
    /\ pc' = [pc EXCEPT ![p] = label]
    /\ ret' = NoReturn
    /\ warned' = FALSE
    /\ UNCHANGED <<memoryService, isRunning, jobs, snap, pre, tickJob,
                   nEvents, nFailures, serial, projectTitle, repoName, filePath, fullPath>>

\* Fail with a catch block that takes the failed task off the queue
FailAdvances(p) ==
    /\ nFailures < MaxFailures
    /\ nFailures' = nFailures + 1
    /\ Return(p, updateRemainingTasks(
                    saveTaskProgress(memoryService, "ERROR", "failed", <<>>),
                    Tail(snap[p])),
              Sched, "error")
    /\ UNCHANGED <<commits, nEvents>>

\* Fail with a catch block that gives the project up: it is marked completed
FailCompletes(p) ==
    /\ nFailures < MaxFailures
    /\ nFailures' = nFailures + 1
    /\ Return(p, markProjectCompleted(
                    saveTaskProgress(memoryService, "ERROR", "failed", <<>>)),
              Sched, "error")
    /\ UNCHANGED <<commits, nEvents>>

\* A collaborator fails: the catch block of developNextTask (lines 349-359),
\* then the caller's.
Fail(p) ==
    /\ nFailures < MaxFailures
    /\ nFailures' = nFailures + 1
    /\ Return(p, saveTaskProgress(memoryService, "ERROR", "failed", <<>>),
              Sched, "error")
    /\ UNCHANGED <<commits, nEvents>>

\* The producer answers (lines 159-225): a failed call, an answer shorter
\* than 10 characters or a missing GITHUB_TOKEN throws.
GenResp(p) ==
    /\ pc[p] = "gen"
    /\ \/ Fail(p)
       \/ Goto(p, "get") /\ UNCHANGED <<commits, sha>>

\* users.getAuthenticated and repos.getContent answer (lines 227-252)
GetResp(p) ==
    /\ pc[p] = "get"
    /\ \/ Fail(p)
       \/ /\ Goto(p, "put")
          /\ sha' = [sha EXCEPT ![p] = Rev(currentTask(p).filePath)]
          /\ UNCHANGED commits

\* What the producer's answers left in codeContent (lines 159-213): "long":
\* an answer of at least 10 characters, the first one or the one to the
\* second prompt; "short": an answer to the second prompt of fewer than 10
\* characters, which nothing checks.
Contents == {"long", "short"}

\* createOrUpdateFileContents answers (lines 263-308): the host refuses a
\* write whose sha is not the revision of the file; any call may fail.
PutResp(p) ==
    /\ pc[p] = "put"
    /\ \/ Fail(p)
       \/ /\ sha[p] # Rev(currentTask(p).filePath)
          /\ \E delivered \in BOOLEAN :
                ReturnNotified(p, saveTaskProgress(memoryService, "ERROR",
                                                   "failed", <<>>),
                               Sched, "error", delivered)
          /\ UNCHANGED <<commits, nEvents, nFailures>>
       \/ /\ sha[p] = Rev(currentTask(p).filePath)
          /\ \E c \in Contents :
                commits' = Append(commits, [task |-> currentTask(p), by |-> p,
                                            content |-> c])
          /\ Goto(p, "notify")
          /\ UNCHANGED sha

\* After the commit (lines 276-347): the progress entry, the dequeue, the
\* completion mark, the result.  The notifications fail or succeed without
\* any effect here.
afterCommit(m, tasks, task) ==
    LET m1 == saveTaskProgress(m, "TASK", "completed", <<task>>)
        updatedRemainingTasks == FilterOut(tasks, task.title)
        m2 == updateRemainingTasks(m1, updatedRemainingTasks)
    IN  IF Len(updatedRemainingTasks) = 0 THEN markProjectCompleted(m2) ELSE m2

Finish(p) ==
    /\ pc[p] = "notify"
    /\ \E delivered \in BOOLEAN :
          ReturnNotified(p, afterCommit(memoryService, snap[p], currentTask(p)),
                         Sched, "ok", delivered)
    /\ UNCHANGED <<commits, nEvents, nFailures>>

\* ------------------------------------------------------------ the controller
\* POST /run up to its first real await (gitAgentController.js lines 13-81)
PostRun ==
    /\ pc["run"] = "idle"
    /\ MayBegin
    /\ LET m == memoryService
           isInitialized == isProjectInitialized(m)
           isCompleted == isProjectCompleted(m)
           m1 == IF isInitialized /\ ~isCompleted
                 THEN clearRepositoryInfo(clearMemory(m)) ELSE m
       IN  IF isCompleted
           THEN /\ Return("run", m1, Sched, "Project completed")
                /\ nEvents' = nEvents + 1
                /\ UNCHANGED <<commits, nFailures>>
           ELSE IF ~isInitialized
           THEN /\ memoryService' = m1
                /\ pc' = [pc EXCEPT !["run"] = "setup"]
                /\ pre' = [pre EXCEPT !["run"] = Before(m.st, Len(commits), m1)]
                /\ ret' = NoReturn
                /\ warned' = FALSE
                /\ nEvents' = nEvents + 1
                /\ UNCHANGED <<isRunning, jobs, commits, snap, sha, tickJob,
                               nFailures, serial, projectTitle, repoName, filePath, fullPath>>
           ELSE LET out == runDailyCycle(m1)
                IN  /\ Begin("run", out, startScheduler(Sched))
                    /\ IF out.status = "develop" THEN UNCHANGED tickJob ELSE TRUE

\* SetupGraph with a generateIdea and a planProject that let the failure
\* of the producer end the Setup Cycle
SetupGraphAborts ==
    /\ pc["run"] = "setup"
    /\ \/ /\ nFailures < MaxFailures
          /\ nFailures' = nFailures + 1
          /\ Return("run", memoryService, Sched, "error")
          /\ UNCHANGED <<commits, nEvents>>
       \/ /\ \E plan \in Plans, repo \in {"real", "mock-repo"} :
                /\ nFailures + (IF repo = "mock-repo" THEN 1 ELSE 0) <= MaxFailures
                /\ nFailures' = nFailures + (IF repo = "mock-repo" THEN 1 ELSE 0)
                /\ memoryService' =
                      saveRepositoryInfo(
                          saveProjectPlan(memoryService, plan, "generated"), repo)
          /\ pc' = [pc EXCEPT !["run"] = "startNotify"]
          /\ ret' = NoReturn
          /\ warned' = FALSE
          /\ UNCHANGED <<isRunning, jobs, commits, snap, sha, pre, tickJob,
                         nEvents, serial, projectTitle, repoName, filePath, fullPath>>

\* runInitialCycle: the graph has run (generateIdea, planProject and
\* manageRepository, each with its fallback when its collaborator fails),
\* the plan and the repository are saved (workflow.js lines 66-87);
\* suspended on the start notification.
SetupGraph ==
    /\ pc["run"] = "setup"
    /\ \E spec \in {"generated", "fallback"}, plan \in Plans,
          repo \in {"real", "mock-repo"}, planFailed \in BOOLEAN :
          LET failed == (IF spec = "fallback" THEN 1 ELSE 0)
                        + (IF planFailed THEN 1 ELSE 0)
                        + (IF repo = "mock-repo" THEN 1 ELSE 0)
          IN  /\ planFailed => plan = <<>>
              /\ nFailures + failed <= MaxFailures
              /\ nFailures' = nFailures + failed
              /\ memoryService' =
                    saveRepositoryInfo(
                        saveProjectPlan(memoryService, plan, spec), repo)
    /\ pc' = [pc EXCEPT !["run"] = "startNotify"]
    /\ ret' = NoReturn
    /\ warned' = FALSE
    /\ UNCHANGED <<isRunning, jobs, commits, snap, sha, pre, tickJob, nEvents,
                   serial, projectTitle, repoName, filePath, fullPath>>

\* runInitialCycle ends (workflow.js lines 89-105) and the controller starts
\* the scheduler (gitAgentController.js lines 55-63).
SetupFinish ==
    /\ pc["run"] = "startNotify"
    /\ \E delivered \in BOOLEAN :
          ReturnNotified("run", saveInitializationStatus(memoryService, "done"),
                         startScheduler(Sched), "setup done", delivered)
    /\ UNCHANGED <<commits, nEvents, nFailures>>

\* ------------------------------------------------------------ administration
\* A request that changes nothing is left out: it would only use up the
\* budget of events.
Admin(m, s) ==
    /\ MayBegin
    /\ <<m, s>> # <<memoryService, Sched>>
    /\ memoryService' = m
    /\ isRunning' = s.isRunning
    /\ jobs' = s.jobs
    /\ tickJob' = IF s.jobs = {} THEN {} ELSE tickJob
    /\ ret' = NoReturn
    /\ warned' = FALSE
    /\ nEvents' = nEvents + 1
    /\ UNCHANGED <<commits, pc, snap, sha, pre, nFailures, serial, projectTitle, repoName, filePath, fullPath>>

\* POST /reset
ResetCompletion == Admin(resetProjectCompletion(memoryService), Sched)

\* POST /force-reset
ForceReset == Admin(forceResetProject(memoryService).m, Sched)

\* POST /continue
ContinueDevelopment == Admin(continueDevelopment(memoryService).m, Sched)

\* POST /cron/start
CronStart == Admin(memoryService, startScheduler(Sched))

\* POST /cron/stop
CronStop == Admin(memoryService, stopScheduler(Sched))

\* POST /cron/restart (cronScheduler.js lines 156-167): stop, then the wait
RestartBegin ==
    /\ pc["restart"] = "idle"
    /\ MayBegin
    /\ isRunning' = FALSE
    /\ jobs' = {}
    /\ tickJob' = {}
    /\ pc' = [pc EXCEPT !["restart"] = "sleep"]
    /\ ret' = NoReturn
    /\ warned' = FALSE
    /\ nEvents' = nEvents + 1
    /\ UNCHANGED <<memoryService, commits, snap, sha, pre, nFailures, serial, projectTitle, repoName, filePath, fullPath>>

\* RestartEnd with a restart() that returns after the wait without start()
RestartEndForgetsStart ==
    /\ pc["restart"] = "sleep"
    /\ Return("restart", memoryService, Sched, "restarted")
    /\ UNCHANGED <<commits, nEvents, nFailures>>

\* the wait is over: start
RestartEnd ==
    /\ pc["restart"] = "sleep"
    /\ Return("restart", memoryService, startScheduler(Sched), "restarted")
    /\ UNCHANGED <<commits, nEvents, nFailures>>

\* The process ends and is started again: every module-level object is
\* constructed anew (memoryService.js line 440, serviceManager.js lines
\* 5-6); the handlers in flight are gone; the repository host keeps its
\* commits.
ProcessRestart ==
    /\ MayBegin
    /\ <<memoryService, Sched>> # <<NewMemoryService, [isRunning |-> FALSE, jobs |-> {}]>>
    /\ memoryService' = NewMemoryService
    /\ isRunning' = FALSE
    /\ jobs' = {}
    /\ tickJob' = {}
    /\ pc' = [p \in Procs |-> "idle"]
    /\ snap' = [p \in Procs |-> <<>>]
    /\ sha' = [p \in Procs |-> 0]
    /\ pre' = [p \in Procs |-> NoBefore]
    /\ ret' = Returned("process", "restarted")
    /\ warned' = FALSE
    /\ nEvents' = nEvents + 1
    /\ UNCHANGED <<commits, nFailures, serial, projectTitle, repoName, filePath, fullPath>>

\* ------------------------------------------------------------ specification
Next ==
    \/ \E p \in Ticks : TimerFire(p)
    \/ ManualTrigger
    \/ PostRun
    \/ SetupGraph
    \/ SetupFinish
    \/ \E p \in Cyclers : GenResp(p)
    \/ \E p \in Cyclers : GetResp(p)
    \/ \E p \in Cyclers : PutResp(p)
    \/ \E p \in Cyclers : Finish(p)
    \/ ResetCompletion
    \/ ForceReset
    \/ ContinueDevelopment
    \/ CronStart
    \/ CronStop
    \/ RestartBegin
    \/ RestartEnd
    \/ ProcessRestart

Spec == Init /\ [][Next]_vars

\* The same handlers when no two of them overlap.
SpecSerial == InitSerial /\ [][Next]_vars

\* A scheduled job fires again and again; as long as a handler is suspended,
\* a collaborator called answers or fails, or a timer set runs out.
Fairness ==
    /\ WF_vars(\E p \in Ticks : TimerFire(p))
    /\ WF_vars(\/ \E p \in Cyclers :
                     GenResp(p) \/ GetResp(p) \/ PutResp(p) \/ Finish(p)
                \/ SetupGraph \/ SetupFinish \/ RestartEnd)

SpecFair == Init /\ [][Next]_vars /\ Fairness

\* ------------------------------------------------------------ properties
queue == memoryService.st.remainingTasks

Range(seq) == {seq[i] : i \in 1..Len(seq)}

\* The invocations that can run a Development Cycle to its commit.
DevCyclers == Ticks \cup {"manual"}

\* The projectState when the cycle of p began (in a step that ends an
\* invocation at its first block: the state the step starts from).
PreOf(p) ==
    IF pc[p] = "idle" THEN cycleStart(p, memoryService).st ELSE pre[p].st

\* The commits made since the invocation of p began.
CommitsSince(p) == Len(commits) - (IF pc[p] = "idle" THEN Len(commits) ELSE pre[p].commits)

\* C1: a Development Cycle started by a tick and one started by
\* triggerManualCycle while the first is in flight never both commit an
\* artifact for the same task.
C1_NoDoubleCommit ==
    \A t \in Ticks :
        ~ /\ pc[t] = "notify"
          /\ pc["manual"] = "notify"
          /\ currentTask(t) = currentTask("manual")
          /\ \E i, j \in 1..Len(commits) :
                /\ commits[i].by = t /\ commits[i].task = currentTask(t)
                /\ commits[j].by = "manual" /\ commits[j].task = currentTask(t)

\* The queue that the recovery (workflow.js lines 144-176) puts in the place
\* of an empty one: the first non-empty queue saved to the log.
savedQueue(m) ==
    LET i == FirstIndex({k \in 1..Len(m.log) : HasSavedQueue(m.log[k])})
    IN  IF i = 0 THEN <<>> ELSE m.log[i].tasks

\* The entry appended last to the log.
LastEntry(m) == m.log[Len(m.log)]

\* The last entries of the log record the failure: the ERROR entry of
\* developNextTask, followed for a tick by the CRON_ERROR entry.
FailureLogged(p, m) ==
    LET n == Len(m.log)
        k == IF p \in Ticks THEN n - 1 ELSE n
    IN  /\ k >= 1
        /\ m.log[k].kind = "task" /\ m.log[k].a = "ERROR" /\ m.log[k].b = "failed"
        /\ p \in Ticks => m.log[n].a = "CRON_ERROR"

\* The invocation of p ends in this step with the error of its cycle.
CycleFails(p) ==
    ret' = Returned(p, IF p \in Ticks THEN "error absorbed" ELSE "error")

\* No other handler has changed the memory service since the cycle of p
\* was suspended first.
Alone(p) == pc[p] # "idle" => memoryService = pre[p].m

\* C2: when a Development Cycle fails, a failure entry is appended, the
\* error reaches the caller, and the task queue and the completed flag are
\* what they were before the cycle, so that the next cycle attempts the same
\* head task.
C2_FailureLeavesState ==
    [][\A p \in DevCyclers : (CycleFails(p) /\ Alone(p)) =>
          /\ FailureLogged(p, memoryService')
          /\ queue' = PreOf(p).remainingTasks
          /\ memoryService'.st.isCompleted = PreOf(p).isCompleted
          /\ pc[p] # "idle" =>
                LET next == runDailyCycle(memoryService')
                IN  next.status = "develop" /\ next.snap[1] = currentTask(p)]_vars

\* What a cycle works on that began with the projectState st: the queue of
\* st, or the saved queue that the recovery puts in the place of an empty
\* one.
queueAtWork(st, m) ==
    IF Len(st.remainingTasks) > 0 THEN st.remainingTasks ELSE savedQueue(m)

\* C2, amended: when a Development Cycle fails, a failure entry is appended
\* and the error reaches the caller; the completed flag is what it was
\* before the cycle, and so is the task queue unless the cycle found it
\* empty: then the saved queue that the recovery put in its place stays.
\* The next cycle attempts the head task that failed.
C2_FailureKeepsRecoveredQueue ==
    [][\A p \in DevCyclers : (CycleFails(p) /\ Alone(p)) =>
          /\ FailureLogged(p, memoryService')
          /\ queue' = queueAtWork(PreOf(p), memoryService)
          /\ memoryService'.st.isCompleted = PreOf(p).isCompleted
          /\ pc[p] # "idle" =>
                LET next == runDailyCycle(memoryService')
                IN  next.status = "develop" /\ next.snap[1] = currentTask(p)]_vars

\* C2, reached: a cycle has found the queue empty, put the saved queue in
\* its place and failed.
C2_Witness ==
    LET m == memoryService
        n == Len(m.log)
    IN  /\ ret = Returned("manual", "error")
        /\ n >= 2
        /\ m.log[n].a = "ERROR"
        /\ m.log[n - 1].kind = "update"
        /\ Len(m.log[n - 1].tasks) > 0
        /\ queue = m.log[n - 1].tasks

\* C3: every task that a Development Cycle removes from the queue was
\* committed by that cycle before the removal.
C3_RemovedOnlyAfterCommit ==
    [][\A p \in DevCyclers : ret'.by = p =>
          \A t \in Range(queue) \ Range(queue') :
             \E i \in 1..Len(commits) :
                /\ i > Len(commits) - CommitsSince(p)
                /\ commits[i].by = p
                /\ commits[i].task = t]_vars

\* C4: an invocation of runDailyCycle makes at most one commit and takes at
\* most one task off the queue it found (after the recovery, when the
\* invocation went through it).
C4_OneUnitPerCycle ==
    [][\A p \in DevCyclers : ret'.by = p /\ pc[p] # "idle" =>
          /\ Cardinality({i \in 1..Len(commits') :
                            i > pre[p].commits /\ commits'[i].by = p}) <= 1
          /\ Len(snap[p]) - Len(queue') <= 1]_vars

\* A step of the Development Cycle of p, or of the tick that calls it.
CycleStep(p) == pc'[p] # pc[p] \/ ret'.by = p

\* C5: every successful Development Cycle leaves the queue shorter than it
\* found it, and no step of a cycle makes the queue longer except the
\* recovery, which replaces an empty queue by the saved one.
C5_QueueMonotone ==
    [][\A p \in DevCyclers : CycleStep(p) =>
          /\ ret'.status = "ok" => Len(queue') < Len(queue)
          /\ Len(queue') > Len(queue) =>
                /\ Len(queue) = 0
                /\ pc[p] = "idle"
                /\ queue' = savedQueue(memoryService)]_vars

\* C6: when the process restarts after the setup and some cycles, the
\* project is still reported initialized and the next cycle takes up the
\* head of the queue that was left.
C6_ProgressSurvivesRestart ==
    [][(ret' = Returned("process", "restarted")
          /\ isProjectInitialized(memoryService)) =>
          /\ isProjectInitialized(memoryService')
          /\ queue' = queue
          /\ runDailyCycle(memoryService).status = "develop" =>
                /\ runDailyCycle(memoryService').status = "develop"
                /\ runDailyCycle(memoryService').snap[1]
                     = runDailyCycle(memoryService).snap[1]]_vars

\* C7: a completed project becomes non-completed only by one of the reset
\* operations: POST /reset, /force-reset, /continue, or the clearMemory of
\* POST /run.
C7_CompletedUntilReset ==
    [][(isProjectCompleted(memoryService)
          /\ ~isProjectCompleted(memoryService')) =>
          \/ ResetCompletion
          \/ ForceReset
          \/ ContinueDevelopment
          \/ PostRun]_vars

\* C8: at most one callback of a tick is executing at any time.
C8_SingleFlightTicks == Cardinality({p \in Ticks : pc[p] # "idle"}) <= 1

\* C9: a tick that finds the project completed stops the scheduler
\* (isRunning false, no job left) and calls no Development Cycle; so a
\* scheduler running while the project is completed stops, unless a reset
\* makes the project non-completed first.
C9_CompletedTickStops ==
    /\ [][\A p \in Ticks :
             (TimerFire(p) /\ isProjectCompleted(memoryService)) =>
                /\ ~isRunning'
                /\ jobs' = {}
                /\ ret' = Returned(p, "stop")
                /\ pc'[p] = "idle"
                /\ memoryService' = memoryService
                /\ commits' = commits]_vars
    /\ (isProjectCompleted(memoryService) /\ isRunning)
          ~> (~isRunning \/ ~isProjectCompleted(memoryService))

\* C9, reached: the last task was committed, and the next tick has stopped
\* the scheduler.
C9_Witness ==
    \E p \in Ticks :
        /\ ret = Returned(p, "stop")
        /\ isProjectCompleted(memoryService)
        /\ Len(commits) > 0
        /\ queue = <<>>
        /\ ~isRunning

\* C10: when the cycle called by a tick throws, the tick absorbs the error:
\* the scheduler is left as it was, running with its job when no request
\* has stopped it meanwhile, and the next tick attempts the head task that
\* failed.
C10_TickAbsorbsFailure ==
    [][\A p \in Ticks : ret' = Returned(p, "error absorbed") =>
          /\ isRunning' = isRunning
          /\ jobs' = jobs
          /\ p \in tickJob => isRunning' /\ jobs' = {"dailyDevelopment"}
          /\ LastEntry(memoryService').a = "CRON_ERROR"
          /\ (pc[p] # "idle" /\ Alone(p)) =>
                LET next == tickEntry(memoryService')
                IN  next.status = "develop" /\ next.snap[1] = currentTask(p)]_vars

\* C10, reached: the cycle of a tick has failed after it was suspended, and
\* the scheduler is running.
C10_Witness ==
    \E p \in Ticks :
        /\ ret = Returned(p, "error absorbed")
        /\ isRunning
        /\ jobs = {"dailyDevelopment"}
        /\ LastEntry(memoryService).a = "CRON_ERROR"
        /\ tickEntry(memoryService).status = "develop"

\* What runDailyCycle gives on m when one of its two guards refuses: the
\* status, the memory service as it was, and no call of the producer or of
\* the repository host ("develop" would be the producer called).
GuardRefuses(m) ==
    LET out == runDailyCycle(m)
    IN  /\ ~isProjectInitialized(m) =>
              out = Outcome(m, "Project not initialized", <<>>)
        /\ isProjectInitialized(m) /\ isProjectCompleted(m) =>
              out = Outcome(m, "Project completed", <<>>)

\* C11: runDailyCycle on a project that is not initialized or is completed
\* returns "Project not initialized" / "Project completed" and changes
\* nothing: in every reachable state of the memory service the call would
\* leave queue, flags, spec and log as they are, and a manual trigger that
\* reaches runDailyCycle on a project that is not initialized returns that
\* status in the same step with memory service, commits and every handler's
\* position unchanged.
C11_GuardsChangeNothing ==
    [][/\ GuardRefuses(memoryService)
       /\ GuardRefuses(memoryService')
       /\ (ManualTrigger /\ ~isProjectInitialized(memoryService)
                         /\ ~isProjectCompleted(memoryService)) =>
              /\ ret' = Returned("manual", "Project not initialized")
              /\ memoryService' = memoryService
              /\ commits' = commits
              /\ pc' = pc]_vars

\* runDailyCycle has refused a project that is not initialized, after a
\* setup was begun and memory was written
C11_Witness ==
    /\ ret = Returned("manual", "Project not initialized")
    /\ memoryService.log # <<>>
    /\ ~isProjectInitialized(memoryService)

\* C12: POST /run on a project that is initialized and not completed runs
\* one Development Cycle on the existing project: the pending tasks are kept
\* and the request is suspended on the producer with the head task of the
\* existing queue.  (Stated for a project with pending tasks and a real
\* repository, where a Development Cycle has a task to attempt.)
C12_RunContinuesProject ==
    [][(/\ PostRun
        /\ isProjectInitialized(memoryService)
        /\ ~isProjectCompleted(memoryService)
        /\ Len(queue) > 0
        /\ getRepositoryInfo(memoryService) = "real") =>
           /\ queue' = queue
           /\ pc'["run"] = "gen"
           /\ snap'["run"] = queue]_vars

\* C13: when the repository host failed during the Setup Cycle (the
\* repository recorded is the stand-in of manageRepository's catch block),
\* the Setup Cycle ends with the error handed to its caller and the project
\* is not left initialized.
C13_RepositoryFailurePropagates ==
    [][(SetupFinish /\ getRepositoryInfo(memoryService) = "mock-repo") =>
           /\ ret' = Returned("run", "error")
           /\ ~isProjectInitialized(memoryService')]_vars

\* The fields of the JSON text of a project spec: the format asked of the
\* producer (developmentAgent.js lines 526-535) and the fallback object of
\* generateIdea (lines 545-556).
SpecFields(spec) ==
    CASE spec = "generated" ->
            {"title", "type", "complexity", "techStack", "features",
             "timeline", "description", "targetAudience"}
      [] spec = "fallback" ->
            {"title", "type", "complexity", "techStack", "features",
             "timeline", "description", "targetAudience"}
      [] OTHER -> {}

\* The producer failed in generateIdea or in planProject during this step
\* of the Setup Cycle (the repository saved is not the stand-in of a failed
\* repository call).
ProducerFailedInSetup ==
    /\ SetupGraph
    /\ nFailures' > nFailures
    /\ ~(/\ memoryService'.log # <<>>
         /\ LastEntry(memoryService').a = "mock-repo")

\* C14: a failure of spec generation or of plan generation in the Setup
\* Cycle neither throws nor aborts: the cycle goes on with the default spec,
\* which has the fields of a generated one (title, type, complexity,
\* techStack, features), or with an empty plan, and the Setup Cycle ends
\* with the project initialized.
C14_SetupAbsorbsProducerFailure ==
    [][/\ ProducerFailedInSetup =>
              /\ pc'["run"] = "startNotify"
              /\ ret' = NoReturn
              /\ \/ memoryService'.st.projectSpec = "fallback"
                 \/ queue' = <<>>
              /\ {"title", "type", "complexity", "techStack", "features"}
                     \subseteq SpecFields(getProjectSpec(memoryService'))
              /\ SpecFields(getProjectSpec(memoryService'))
                     = SpecFields("generated")
       /\ SetupFinish =>
              /\ ret' = Returned("run", "setup done")
              /\ isProjectInitialized(memoryService')]_vars

\* a Setup Cycle that went on with the default spec has ended
C14_Witness ==
    /\ ret = Returned("run", "setup done")
    /\ memoryService.st.projectSpec = "fallback"
    /\ memoryService.st.isInitialized
    /\ nFailures = 1

\* What runInitialCycle has saved when the graph returned plan, spec and
\* repo to it (workflow.js lines 68-87), m being the memory service with
\* which the Setup Cycle began.
SetupSaved(m, plan, spec, repo) ==
    saveRepositoryInfo(saveProjectPlan(m, plan, spec), repo)

\* C15: a Setup Cycle whose producer returned a k-task plan, and whose
\* memory service holds what the cycle saved, ends with the project
\* initialized, not completed, and the task queue equal to the k tasks of
\* the plan in plan order.
C15_SetupQueuesPlan ==
    [][\A plan \in Plans, spec \in {"generated", "fallback"},
          repo \in {"real", "mock-repo"} :
           (/\ SetupFinish
            /\ memoryService = SetupSaved(pre["run"].m, plan, spec, repo)) =>
               /\ ret' = Returned("run", "setup done")
               /\ isProjectInitialized(memoryService')
               /\ ~isProjectCompleted(memoryService')
               /\ queue' = plan]_vars

\* a Setup Cycle with a plan of MaxTasks distinct tasks has ended
C15_Witness ==
    /\ ret = Returned("run", "setup done")
    /\ queue = PlanOf(MaxTasks, FALSE)
    /\ memoryService.st.isInitialized
    /\ ~isProjectCompleted(memoryService)
    /\ LastEntry(memoryService).kind = "initialization"

\* C16: in every reachable state in which the project is not initialized,
\* the project spec is null and the task queue is empty.
C16_UninitializedIsEmpty ==
    ~isProjectInitialized(memoryService) =>
        /\ getProjectSpec(memoryService) = Null
        /\ queue = <<>>

cycleEffect(m, status) ==
    IF status = "stop" THEN m.st ELSE runDailyCycle(m).m.st

C19_StartWhileRunningIsNoOp ==
    [][/\ isRunning => startScheduler(Sched) = Sched
       /\ ((SetupFinish \/ RestartEnd) /\ isRunning) =>
              /\ isRunning'
              /\ jobs' = jobs
              /\ Cardinality(jobs') = 1
              /\ tickJob' = tickJob]_vars

\* restart() has called start() on a scheduler that another handler had
\* started during the wait: the job has a callback in flight
C19_Witness ==
    /\ ret = Returned("restart", "restarted")
    /\ isRunning
    /\ jobs = {"dailyDevelopment"}
    /\ tickJob # {}

\* The handlers that call start().
CallsStart == CronStart \/ ManualTrigger \/ PostRun \/ SetupFinish \/ RestartEnd

\* The Development Cycle of p has ended in the last step: with its commit
\* and dequeue ("ok") or with its failure.
CycleEnded(p) ==
    /\ ret.by = p
    /\ ret.status \in {"ok", "error", "error absorbed"}

\* C20: stop() does not cancel a Development Cycle in flight: the request
\* leaves every handler where it is suspended, with the queue it read, and
\* a cycle in flight on a stopped scheduler still runs to its commit and
\* dequeue or to its failure (unless the process itself is ended); and on a
\* stopped scheduler no tick fires: a tick fires only while the scheduler
\* runs with its job, and the scheduler comes to run only in a step of a
\* handler that calls start().
C20_StopSparesCycleInFlight ==
    /\ [][/\ (CronStop \/ RestartBegin) =>
                 /\ \A p \in DevCyclers : pc'[p] = pc[p]
                 /\ snap' = snap /\ sha' = sha
                 /\ memoryService' = memoryService
                 /\ ~isRunning' /\ jobs' = {}
          /\ \A p \in Ticks : TimerFire(p) => isRunning /\ jobs # {}
          /\ (~isRunning /\ isRunning') => CallsStart]_vars
    /\ \A p \in DevCyclers :
          (pc[p] # "idle" /\ ~isRunning)
             ~> (CycleEnded(p) \/ ret = Returned("process", "restarted"))

\* the cycle of a tick has ended with its commit on a scheduler that was
\* stopped while the cycle was in flight, and no tick has fired since
C20_Witness ==
    \E p \in Ticks :
        /\ ret = Returned(p, "ok")
        /\ ~isRunning
        /\ jobs = {}
        /\ \E i \in 1..Len(commits) : commits[i].by = p
        /\ \A q \in Ticks : pc[q] = "idle"

\* C21: a notification that fails never changes the outcome of a cycle:
\* every step in which a handler logs the warning of a failed notification
\* ends as the same step does with the notification delivered.  After the
\* commit: the result "ok", the progress entry, the dequeue and the
\* completion mark.  After a refused commit: the failure, with queue and
\* completed flag untouched.  At the end of the Setup Cycle: the result and
\* the project initialized.
C21_NotificationFailureChangesNothing ==
    [][/\ \A status \in {"ok", "error", "setup done"} :
             notify(status, FALSE) = notify(status, TRUE)
       /\ warned' =>
             \E p \in Cyclers :
                /\ ret'.by = p
                /\ pc[p] = "notify" =>
                      /\ ret'.status = "ok"
                      /\ memoryService' =
                            afterCommit(memoryService, snap[p], currentTask(p))
                /\ pc[p] = "put" =>
                      /\ ret'.status \in {"error", "error absorbed"}
                      /\ memoryService'.st = memoryService.st
                /\ pc[p] = "startNotify" =>
                      /\ ret'.status = "setup done"
                      /\ memoryService' =
                            saveInitializationStatus(memoryService, "done")
                /\ pc[p] \in {"notify", "put", "startNotify"}]_vars

\* the cycle of a tick has committed its task and returned its result
\* although a notification failed
C21_Witness ==
    \E p \in Ticks :
        /\ warned
        /\ ret = Returned(p, "ok")
        /\ \E i \in 1..Len(commits) : commits[i].by = p
        /\ LastEntry(memoryService).kind = "update"

\* C22: restart() stops the scheduler (not running, no job), waits and calls
\* start(): when it returns the scheduler is running with exactly one job,
\* whatever start(), triggerManualCycle, POST /run, stop() or the ticks did
\* during the wait.
C22_RestartLeavesOneJob ==
    [][/\ RestartBegin =>
             /\ ~isRunning' /\ jobs' = {} /\ pc'["restart"] = "sleep"
       /\ RestartEnd =>
             /\ pc["restart"] = "sleep"
             /\ ret' = Returned("restart", "restarted")
             /\ isRunning'
             /\ Cardinality(jobs') = 1]_vars

\* restart() has returned after a manual trigger started the scheduler
\* during the wait and a tick of the job it scheduled is in flight
C22_Witness ==
    /\ ret = Returned("restart", "restarted")
    /\ isRunning
    /\ Cardinality(jobs) = 1
    /\ pc["manual"] # "idle"
    /\ \E p \in Ticks : p \in tickJob /\ pc[p] # "idle"

\* C23: completion of a task removes that task, matched by title, from the
\* queue as it is at completion time: the queue after the completion is the
\* current queue without the tasks of that title, so that changes made to
\* the queue since the cycle read it are kept.
C23_DequeueFromCurrentQueue ==
    [][\A p \in Cyclers : Finish(p) =>
           queue' = FilterOut(queue, currentTask(p).title)]_vars

\* The "update" entries of a log: what updateRemainingTasks has appended.
Updates(log) == {k \in 1..Len(log) : log[k].kind = "update"}

\* What runDailyCycle gives on an initialized, not completed project with a
\* spec and an empty queue: with a non-empty queue saved in the log, that
\* queue is put in place by one call of updateRemainingTasks and the cycle
\* goes on to the development step with it (or to that step's refusal of
\* the repository); with none, the project is marked completed and "Project
\* completed" is the result.
RecoversOnce(m) ==
    LET out == runDailyCycle(m)
    IN  (/\ isProjectInitialized(m) /\ ~isProjectCompleted(m)
         /\ getProjectSpec(m) # Null
         /\ getRemainingTasks(m) = <<>>) =>
            IF savedQueue(m) # <<>>
            THEN /\ out.m.st.remainingTasks = savedQueue(m)
                 /\ ~isProjectCompleted(out.m)
                 /\ out.status \in {"develop", "error"}
                 /\ out.status = "develop" => out.snap = savedQueue(m)
                 /\ Cardinality(Updates(out.m.log)) =
                        Cardinality(Updates(m.log)) + 1
            ELSE out = Outcome(markProjectCompleted(m), "Project completed", <<>>)

QueueEntries(m) == {k \in 1..Len(m.log) : HasSavedQueue(m.log[k])}

RepoEntries(m) == {k \in 1..Len(m.log) : HasRepository(m.log[k])}

Newest(S) == CHOOSE i \in S : \A j \in S : j <= i

Oldest(S) == CHOOSE i \in S : \A j \in S : i <= j

\* getRepositoryInfo gives what the newest, or else the oldest, repository
\* entry holds.
RepoScanTakes(m, newest) ==
    RepoEntries(m) # {} =>
        getRepositoryInfo(m) = m.log[IF newest THEN Newest(RepoEntries(m))
                                               ELSE Oldest(RepoEntries(m))].a

\* The scans of the queue (runDailyCycle's recovery, forceResetProject,
\* continueDevelopment on an empty queue) and of the repository give what
\* the newest, or else the oldest, of the entries that match holds; the
\* repository scan is also put to a log with one more repository entry.
ScansTake(m, newest) ==
    /\ QueueEntries(m) # {} =>
          LET tasks == m.log[IF newest THEN Newest(QueueEntries(m))
                                      ELSE Oldest(QueueEntries(m))].tasks
              cold == [m EXCEPT !.st.remainingTasks = <<>>,
                                !.st.isCompleted = FALSE]
          IN  /\ forceResetProject(m).m.st.remainingTasks = tasks
              /\ continueDevelopment(cold).m.st.remainingTasks = tasks
              /\ (/\ isProjectInitialized(m) /\ ~isProjectCompleted(m)
                  /\ getProjectSpec(m) # Null /\ getRemainingTasks(m) = <<>>)
                    => runDailyCycle(m).m.st.remainingTasks = tasks
    /\ RepoScanTakes(m, newest)
    /\ RepoScanTakes(saveRepositoryInfo(m, "generated"), newest)

C26_ColdReadGivesSavedQueue ==
    (/\ memoryService.st.remainingTasks = <<>>
     /\ Cardinality(QueueEntries(memoryService)) = 1) =>
        getRemainingTasks(memoryService) = savedQueue(memoryService)

\* The malformed messages tried by the scans.
MalformedEntries ==
    {Malformed(ts, a, b) : ts \in {<<>>, <<Task(2, 2)>>},
                           a \in {Null, "text"},
                           b \in {"none", "array", "broken"}}

\* The instance with entry x put in the log after its first k entries.
WithEntry(m, k, x) ==
    [m EXCEPT !.log = SubSeq(m.log, 1, k) \o <<x>> \o SubSeq(m.log, k + 1, Len(m.log))]

\* The instance with the log it has and the in-process state of a new one.
Cold(m) == [m EXCEPT !.st = EmptyProjectState]

\* The entries x of the set X leave both scans as they are, wherever x stands
\* in the log.
ScansSkip(m, X) ==
    \A k \in 0..Len(m.log), x \in X :
        /\ getProjectSpec(Cold(WithEntry(m, k, x))) = getProjectSpec(Cold(m))
        /\ scanRemainingTasks(WithEntry(m, k, x)) = scanRemainingTasks(m)

\* C27: a malformed entry never ends a scan and never becomes its result: a
\* log with a well-formed project-spec entry (and so a well-formed queue
\* entry) and one malformed entry, before or after it, gives the spec and
\* the queue of the well-formed entry.
C27_MalformedEntryIsSkipped ==
    (\E i \in 1..Len(memoryService.log) : HasProjectSpec(memoryService.log[i]))
        => ScansSkip(memoryService, MalformedEntries)

\* C28: with the in-process state of a new instance and a log that holds the
\* entry written by saveInitializationStatus("done"), isProjectInitialized
\* is true.
C28_MarkerInLogMeansInitialized ==
    (\E i \in 1..Len(memoryService.log) :
        /\ memoryService.log[i].kind = "initialization"
        /\ memoryService.log[i].a = "done") =>
            isProjectInitialized(Cold(memoryService))

\* C29: every artifact committed by a development cycle has at least 10
\* characters once the code fences are stripped, the answer to the second
\* prompt included.
C29_CommittedContentIsLongEnough ==
    \A i \in 1..Len(commits) : commits[i].content # "short"

\* ------------------------------------------------------ repository name
\* A title is a sequence of characters.
MaxTitleLen == 3
RepoNameLimit == 100

LowerLetters == {"a", "c", "l", "m", "o", "p", "y"}
Digits == {"0", "2"}
Whitespace == {" "}
Hyphen == "-"

\* String.prototype.toLowerCase on one character
LowerChar(c) ==
    CASE c = "A" -> "a"
      [] c = "C" -> "c"
      [] c = "M" -> "m"
      [] OTHER   -> c

toLowerCase(s) == [i \in 1..Len(s) |-> LowerChar(s[i])]

\* replace(/[^a-z0-9\s-]/g, '')
removeSpecial(s) ==
    SelectSeq(s, LAMBDA c : c \in LowerLetters \cup Digits \cup Whitespace \cup {Hyphen})

\* replace(/X+/g, '-') for the characters X of the set S: each maximal run
\* becomes one hyphen.
replaceRuns(s, S) ==
    LET first(i) == ~(s[i] \in S /\ i > 1 /\ s[i - 1] \in S)
        idx == SelectSeq([i \in 1..Len(s) |-> i], first)
    IN  [k \in 1..Len(idx) |-> IF s[idx[k]] \in S THEN Hyphen ELSE s[idx[k]]]

\* replace(/^-|-$/g, '')
trimHyphens(s) ==
    LET a == IF s # <<>> /\ Head(s) = Hyphen THEN Tail(s) ELSE s
    IN  IF a # <<>> /\ a[Len(a)] = Hyphen THEN SubSeq(a, 1, Len(a) - 1) ELSE a

\* substring(0, n)
substring(s, n) == SubSeq(s, 1, IF Len(s) < n THEN Len(s) ELSE n)

\* The repository name manageRepository computes from projectSpec.title.
repoNameOf(t) ==
    substring(trimHyphens(replaceRuns(replaceRuns(removeSpecial(toLowerCase(t)),
                                                  Whitespace),
                                      {Hyphen})),
              RepoNameLimit)

RECURSIVE SeqsUpTo(_, _)
SeqsUpTo(A, n) ==
    IF n = 0 THEN {<<>>}
    ELSE LET S == SeqsUpTo(A, n - 1)
         IN  S \cup {Append(s, c) : s \in S, c \in A}

ShortTitles == SeqsUpTo({"a", "A", "2", " ", "-", "!"}, MaxTitleLen)

\* "My Cool App!! 2.0"
ExampleTitle ==
    <<"M", "y", " ", "C", "o", "o", "l", " ", "A", "p", "p", "!", "!", " ",
      "2", ".", "0">>

\* "my-cool-app-20"
ExampleName ==
    <<"m", "y", "-", "c", "o", "o", "l", "-", "a", "p", "p", "-", "2", "0">>

\* The short titles, the same after a run of letters that ends one character
\* before the limit, and the example.
Titles ==
    ShortTitles
        \cup {[i \in 1..(RepoNameLimit - 1) |-> "a"] \o t : t \in ShortTitles}
        \cup {ExampleTitle}

InitRepoName ==
    /\ InitState
    /\ serial = FALSE
    /\ projectTitle \in Titles
    /\ repoName = Null
    /\ NoPath

\* manageRepository computes the name.
ComputeRepoName ==
    /\ repoName = Null
    /\ repoName' = repoNameOf(projectTitle)
    /\ UNCHANGED <<memoryService, isRunning, jobs, commits, pc, snap, sha, pre,
                   tickJob, ret, nEvents, nFailures, warned, serial,
                   projectTitle, filePath, fullPath>>

NextRepoName == ComputeRepoName

SpecRepoName == InitRepoName /\ [][NextRepoName]_vars

\* ^[a-z0-9-]{1,100}$ and no hyphen at either end, no two hyphens in a row
WellFormedName(n) ==
    /\ Len(n) \in 1..RepoNameLimit
    /\ \A i \in 1..Len(n) : n[i] \in LowerLetters \cup Digits \cup {Hyphen}
    /\ n[1] # Hyphen
    /\ n[Len(n)] # Hyphen
    /\ \A i \in 1..(Len(n) - 1) : ~(n[i] = Hyphen /\ n[i + 1] = Hyphen)

\* C30: for every title the repository name computed in the setup matches
\* ^[a-z0-9-]{1,100}$ and has no leading, trailing or consecutive hyphen;
\* "My Cool App!! 2.0" gives "my-cool-app-20".
C30_RepoNameIsWellFormed ==
    repoName # Null =>
        /\ WellFormedName(repoName)
        /\ projectTitle = ExampleTitle => repoName = ExampleName

\* ------------------------------------------------------------ file path
\* A path is a sequence of characters.
MaxPathLen == 4

Slash == "/"
Dot == "."

\* s without its longest prefix of characters of S: replace(/^X+/, '')
stripLeading(s, S) ==
    LET rest == {i \in 1..Len(s) : s[i] \notin S}
        k == IF rest = {} THEN Len(s) + 1 ELSE CHOOSE i \in rest : \A j \in rest : i <= j
    IN  SubSeq(s, k, Len(s))

\* s without its longest suffix of characters of S: replace(/X+$/, '')
stripTrailing(s, S) ==
    LET rest == {i \in 1..Len(s) : s[i] \notin S}
        k == IF rest = {} THEN 0 ELSE CHOOSE i \in rest : \A j \in rest : j <= i
    IN  SubSeq(s, 1, k)

\* replace(/\/+/g, '/')
collapseSlashes(s) ==
    LET first(i) == ~(s[i] = Slash /\ i > 1 /\ s[i - 1] = Slash)
        idx == SelectSeq([i \in 1..Len(s) |-> i], first)
    IN  [k \in 1..Len(idx) |-> s[idx[k]]]

\* replace(/^\.\//, '')
removeLeadingDotSlash(s) ==
    IF Len(s) >= 2 /\ s[1] = Dot /\ s[2] = Slash THEN SubSeq(s, 3, Len(s)) ELSE s

\* String.prototype.trim
trim(s) == stripTrailing(stripLeading(s, Whitespace), Whitespace)

endsWith(s, c) == s # <<>> /\ s[Len(s)] = c

includes(s, c) == \E i \in 1..Len(s) : s[i] = c

Root == <<"r", "o", "o", "t">>
Frontend == <<"f", "r", "o", "n", "t", "e", "n", "d">>
Backend == <<"b", "a", "c", "k", "e", "n", "d">>
SrcMainJs == <<"s", "r", "c", "/", "m", "a", "i", "n", ".", "j", "s">>
IndexJs == <<"/", "i", "n", "d", "e", "x", ".", "j", "s">>
DotJs == <<".", "j", "s">>

normalizeFilePath(path, taskTitle) ==
    LET p1 == trim(removeLeadingDotSlash(collapseSlashes(stripLeading(path, {Slash}))))
        p2 == IF endsWith(p1, Slash) \/ p1 \in {Root, Frontend, Backend}
              THEN IF p1 = Root \/ p1 = <<>> THEN SrcMainJs
                   ELSE IF p1 = Frontend THEN Frontend \o <<Slash>> \o SrcMainJs
                   ELSE IF p1 = Backend THEN Backend \o <<Slash>> \o SrcMainJs
                   ELSE SubSeq(p1, 1, Len(p1) - 1) \o IndexJs
              ELSE p1
        p3 == IF ~includes(p2, Dot) THEN p2 \o DotJs ELSE p2
        p4 == stripTrailing(stripLeading(collapseSlashes(p3), {Slash}), {Slash})
    IN  IF Len(p4) = 0
        THEN <<"s", "r", "c", Slash>>
                \o replaceRuns(toLowerCase(taskTitle), Whitespace) \o DotJs
        ELSE p4

\* "/src//utils/", "src/utils/index.js", "backend/src/main.js", "notes",
\* "notes.js"
SrcUtilsDir == <<"/", "s", "r", "c", "/", "/", "u", "t", "i", "l", "s", "/">>
SrcUtilsIndexJs ==
    <<"s", "r", "c", "/", "u", "t", "i", "l", "s", "/", "i", "n", "d", "e", "x",
      ".", "j", "s">>
BackendSrcMainJs == Backend \o <<Slash>> \o SrcMainJs
Notes == <<"n", "o", "t", "e", "s">>
NotesJs == Notes \o DotJs

\* The paths of at most MaxPathLen characters, the examples and the names
\* the function treats apart.
Paths ==
    SeqsUpTo({"a", Slash, Dot, " "}, MaxPathLen)
        \cup {SrcUtilsDir, Backend, Notes, Root, Frontend}

TaskTitles == {<<"A", " ", "a">>}

InitFilePath ==
    /\ InitState
    /\ serial = FALSE
    /\ NoTitle
    /\ filePath \in Paths
    /\ fullPath = Null

\* developNextTask normalizes the path of the task.
NormalizePath ==
    /\ fullPath = Null
    /\ \E taskTitle \in TaskTitles : fullPath' = normalizeFilePath(filePath, taskTitle)
    /\ UNCHANGED <<memoryService, isRunning, jobs, commits, pc, snap, sha, pre,
                   tickJob, ret, nEvents, nFailures, warned, serial,
                   projectTitle, repoName, filePath>>

NextFilePath == NormalizePath

SpecFilePath == InitFilePath /\ [][NextFilePath]_vars

firstSegment(s) ==
    LET at == {i \in 1..Len(s) : s[i] = Slash}
        k == IF at = {} THEN Len(s) + 1 ELSE CHOOSE i \in at : \A j \in at : i <= j
    IN  SubSeq(s, 1, k - 1)

lastSegment(s) ==
    LET at == {i \in 1..Len(s) : s[i] = Slash}
        k == IF at = {} THEN 0 ELSE CHOOSE i \in at : \A j \in at : j <= i
    IN  SubSeq(s, k + 1, Len(s))

\* A dot in the segment with at least one character after it.
HasExtension(seg) == \E i \in 1..(Len(seg) - 1) : seg[i] = Dot

WellFormedPath(s) ==
    /\ s # <<>>
    /\ s[1] # Slash
    /\ firstSegment(s) \notin {<<Dot>>, <<Dot, Dot>>}
    /\ \A i \in 1..(Len(s) - 1) : ~(s[i] = Slash /\ s[i + 1] = Slash)
    /\ HasExtension(lastSegment(s))

\* C31: normalizeFilePath maps "/src//utils/" to "src/utils/index.js",
\* "backend" to "backend/src/main.js" and "notes" to "notes.js"; for every
\* path the result is non-empty, has no leading slash, no leading
\* dot-segment, no duplicate slash, and its last segment has an extension.
C31_NormalizedPathIsWellFormed ==
    fullPath # Null =>
        /\ filePath = SrcUtilsDir => fullPath = SrcUtilsIndexJs
        /\ filePath = Backend => fullPath = BackendSrcMainJs
        /\ filePath = Notes => fullPath = NotesJs
        /\ WellFormedPath(fullPath)

\* C32: markProjectCompleted applied to a project that is completed and has
\* an empty queue changes nothing: the flag stays true, the queue stays
\* empty, nothing is written to the log.  The cycle that commits the last
\* task applies it twice (updateRemainingTasks([]) and then developNextTask):
\* the second application adds nothing to the first.
C32_CompletionIsIdempotent ==
    [][/\ \A m \in {memoryService, memoryService'} :
            (m.st.isCompleted /\ m.st.remainingTasks = <<>>) =>
                markProjectCompleted(m) = m
       /\ \A p \in Cyclers :
            (Finish(p) /\ FilterOut(snap[p], currentTask(p).title) = <<>>) =>
                /\ memoryService' =
                      updateRemainingTasks(
                          saveTaskProgress(memoryService, "TASK", "completed",
                                           <<currentTask(p)>>), <<>>)
                /\ markProjectCompleted(memoryService') = memoryService'
                /\ memoryService'.st.isCompleted
                /\ memoryService'.st.remainingTasks = <<>>]_vars

C32_Witness ==
    \E p \in Cyclers :
        /\ ret = Returned(p, "ok")
        /\ memoryService.st.isCompleted
        /\ queue = <<>>
        /\ LastEntry(memoryService).kind = "update"
        /\ LastEntry(memoryService).tasks = <<>>
        /\ commits # <<>>

\* C33: a tick that finds the project not completed, the queue empty and
\* no non-empty queue saved in the log stops the scheduler and returns: no
\* development cycle is entered, nothing is committed, the memory is as it
\* was.
C33_TickWithNothingToDoStops ==
    [][\A p \in Ticks :
          (/\ TimerFire(p)
           /\ ~isProjectCompleted(memoryService)
           /\ queue = <<>>
           /\ QueueEntries(memoryService) = {}) =>
              /\ ~isRunning' /\ jobs' = {}
              /\ ret' = Returned(p, "stop")
              /\ pc'[p] = "idle"
              /\ tickJob' = {}
              /\ commits' = commits
              /\ memoryService' = memoryService]_vars

C33_Witness ==
    \E p \in Ticks :
        /\ ret = Returned(p, "stop")
        /\ ~isProjectCompleted(memoryService)
        /\ ~isProjectInitialized(memoryService)
        /\ queue = <<>>
        /\ QueueEntries(memoryService) = {}
        /\ ~isRunning /\ jobs = {}

\* Every read of the projection gives the empty state.
EmptyProjection(m) ==
    /\ ~isProjectInitialized(m)
    /\ ~isProjectCompleted(m)
    /\ getRemainingTasks(m) = <<>>
    /\ getProjectSpec(m) = Null
    /\ getRepositoryInfo(m) = Null

\* C34: after clearMemory, whatever came before, every read of the
\* projection gives the empty state: not initialized, not completed, empty
\* queue, no spec, no repository.  POST /run on a project in progress is
\* the handler that calls it.
C34_ClearMemoryEmptiesProjection ==
    [][/\ EmptyProjection(clearMemory(memoryService))
       /\ EmptyProjection(clearMemory(memoryService'))
       /\ (/\ PostRun
           /\ isProjectInitialized(memoryService)
           /\ ~isProjectCompleted(memoryService)) =>
              /\ memoryService' = clearRepositoryInfo(clearMemory(memoryService))
              /\ EmptyProjection(memoryService')]_vars

C34_Witness ==
    /\ ret = Returned("run", "Project not initialized")
    /\ EmptyProjection(memoryService)
    /\ Len(memoryService.log) = 2
    /\ LastEntry(memoryService).kind = "clear_repo"
    /\ commits # <<>>

\* C35: after clearRepositoryInfo, getRepositoryInfo gives null: a
\* repository saved before the clear is no longer returned.
C35_ClearedRepositoryIsNotReturned ==
    getRepositoryInfo(clearRepositoryInfo(memoryService)) = Null

DistinctTitles(tasks) ==
    \A i, j \in 1..Len(tasks) : tasks[i].title = tasks[j].title => i = j

\* With the memory service m and the commits cs, k ticks have worked on the
\* plan saved by the setup, in the repository the setup created: the first
\* k tasks of the plan are committed by ticks, one commit each and in the
\* order of the plan, the rest is the queue, and the project is completed
\* exactly when no task is left.
TicksDone(m, cs, k) ==
    LET plan == savedQueue(m)
    IN  /\ Len(plan) >= 1 /\ k <= Len(plan)
        /\ DistinctTitles(plan)
        /\ getRepositoryInfo(m) = "real"
        /\ m.st.isInitialized
        /\ Len(cs) = k
        /\ \A i \in 1..k : cs[i].task = plan[i] /\ cs[i].by \in Ticks
        /\ m.st.remainingTasks = SubSeq(plan, k + 1, Len(plan))
        /\ m.st.isCompleted <=> (k = Len(plan))

\* C36: after a setup with a plan of N tasks with distinct titles, when the
\* producer and the host answer every call and no other handler comes in
\* between, each tick commits the head of the queue and takes it off: after
\* k ticks the first k tasks are committed, one commit each and in plan
\* order, and after N ticks the project is completed.
C36_TicksCommitPlanInOrder ==
    [][/\ \A plan \in Plans, spec \in {"generated", "fallback"},
             repo \in {"real", "mock-repo"} :
             (/\ SetupFinish
              /\ memoryService = SetupSaved(pre["run"].m, plan, spec, repo)
              /\ savedQueue(pre["run"].m) = <<>>
              /\ commits = <<>>
              /\ repo = "real"
              /\ Len(plan) >= 1 /\ DistinctTitles(plan)) =>
                 TicksDone(memoryService', commits', 0)
       /\ \A p \in Ticks, k \in 0..(MaxTasks - 1) :
             /\ (TimerFire(p) /\ TicksDone(memoryService, commits, k)
                    /\ k < Len(savedQueue(memoryService))) =>
                   /\ pc'[p] = "gen"
                   /\ snap'[p] = queue
                   /\ memoryService' = memoryService
             /\ (/\ Finish(p)
                 /\ Alone(p)
                 /\ Len(commits) = pre[p].commits + 1
                 /\ TicksDone(pre[p].m, SubSeq(commits, 1, pre[p].commits), k)) =>
                   /\ ret' = Returned(p, "ok")
                   /\ TicksDone(memoryService', commits', k + 1)]_vars

C36_Witness ==
    \E p \in Ticks :
        /\ ret = Returned(p, "ok")
        /\ TicksDone(memoryService, commits, MaxTasks)
        /\ Len(commits) = MaxTasks
        /\ isProjectCompleted(memoryService)
        /\ nEvents = MaxTasks + 1
        /\ nFailures = 0

\* C37: in every state reached by handlers that do not overlap (setup,
\* cycles, ticks, manual triggers, reset, force-reset, continue, the clear
\* of POST /run), a completed project has an empty task queue.
C37_CompletedMeansEmptyQueue ==
    isProjectCompleted(memoryService) => queue = <<>>

C37_Witness ==
    /\ isProjectCompleted(memoryService)
    /\ queue = <<>>
    /\ Len(commits) = MaxTasks
    /\ LastEntry(memoryService).kind = "update"
    /\ Quiet

\* The project has committed every task of the plan saved by its setup and
\* is completed: cs are the commits.
AllDone(m, cs) ==
    LET plan == savedQueue(m)
    IN  /\ Len(plan) >= 1
        /\ m.st.isInitialized
        /\ m.st.isCompleted
        /\ m.st.remainingTasks = <<>>
        /\ getRepositoryInfo(m) = "real"
        /\ \A i \in 1..Len(plan) : \E j \in 1..Len(cs) : cs[j].task = plan[i]

\* The first block of a handler put the whole plan back in the queue and
\* called the producer for its first task.
Restores(out, plan) ==
    /\ out.status = "develop"
    /\ out.snap = plan
    /\ getRemainingTasks(out.m) = plan
    /\ ~isProjectCompleted(out.m)

\* C38: after resetProjectCompletion on a project that committed all N tasks
\* of its plan, the next cycle, of a manual trigger or of a tick, puts the
\* whole original plan back in the queue and works on its first task: the
\* commit it makes is a second commit of a task already committed.
C38_ResetReplaysPlan ==
    [][/\ \A m \in {memoryService, memoryService'} :
            AllDone(m, commits') =>
                /\ Restores(manualEntry(resetProjectCompletion(m)), savedQueue(m))
                /\ Restores(tickEntry(resetProjectCompletion(m)), savedQueue(m))
       /\ \A p \in DevCyclers :
            (/\ PutResp(p)
             /\ Len(commits') = Len(commits) + 1
             /\ pre[p].st.remainingTasks = <<>>
             /\ ~pre[p].st.isCompleted
             /\ snap[p] = savedQueue(memoryService)
             /\ \A i \in 1..Len(snap[p]) :
                   \E j \in 1..pre[p].commits : commits[j].task = snap[p][i]) =>
                /\ commits'[Len(commits')].task = savedQueue(memoryService)[1]
                /\ commits'[Len(commits')].by = p
                /\ Cardinality({j \in 1..Len(commits') :
                        commits'[j].task = savedQueue(memoryService)[1]}) >= 2]_vars

C38_Witness ==
    \E p \in DevCyclers :
        /\ pc[p] = "notify"
        /\ pre[p].st.remainingTasks = <<>>
        /\ ~pre[p].st.isCompleted
        /\ pre[p].st.isInitialized
        /\ snap[p] = savedQueue(memoryService)
        /\ queue = savedQueue(memoryService)
        /\ commits[Len(commits)].by = p
        /\ Cardinality({j \in 1..Len(commits) : commits[j].task = snap[p][1]}) = 2

C40_ManualTriggerStartsScheduler ==
    [][ManualTrigger =>
          /\ isRunning'
          /\ ~isRunning => jobs' = jobs \cup {"dailyDevelopment"}
          /\ isProjectCompleted(memoryService) =>
                /\ ret' = Returned("manual", "Project completed")
                /\ memoryService' = memoryService]_vars

\* a manual trigger on a completed project, taken during the wait of a
\* restart whose stop() had stopped the scheduler, has started it again
C40_Witness ==
    /\ pc["restart"] = "sleep"
    /\ nEvents = 4
    /\ Len(commits) = 1
    /\ memoryService.st.isCompleted
    /\ ret = Returned("manual", "Project completed")
    /\ isRunning
    /\ jobs = {"dailyDevelopment"}

====
